---------------------------- MODULE Spec2Model ----------------------------
(***************************************************************************)
(* A model of FacultyAgent (src/FacultyAgent.py): the construction of the  *)
(* agent, which fixes the User-Agent header, and one get_experts request   *)
(* that resolves an institution, searches works, aggregates the authors    *)
(* affiliated with the institution, fetches their profiles, filters them   *)
(* by technical field, ranks them by h-index, hands the result to the      *)
(* storage collaborator and returns it.                                    *)
(*                                                                         *)
(* JSON objects are functions from key strings to values (a record), so    *)
(* that a missing key is a key outside DOMAIN: obj['k'] raises KeyError    *)
(* there and obj.get('k', d) yields d.  The empty object is <<>>.  JSON    *)
(* lists are sequences.  The three upstream responses are drawn from the   *)
(* bounded sets below at the moment the request is issued.                 *)
(***************************************************************************)
EXTENDS Integers, Sequences, FiniteSets, TLC

(***************************************************************************)
(* Bounds of the model.                                                    *)
(***************************************************************************)
\* Works in one works response.
MaxWorks == 2
\* Profiles in one authors response.
MaxProfiles == 2

(***************************************************************************)
(* Program constants.                                                      *)
(***************************************************************************)
\* top_ids = list(author_scores.keys())[:20]
AuthorCap == 20
\* def get_experts(self, school_name, keywords, limit: int = 10)
DefaultLimit == 10
\* topics[:3]
TopicWindow == 3
\* impact_score: float = 0.0
DefaultImpactScore == 0
\* works_count: int = 0, total_citations: int = 0
DefaultCount == 0
\* technical_fields = ["Computer Science", "Mathematics", "Engineering"]
technical_fields == {"Computer Science", "Mathematics", "Engineering"}

(***************************************************************************)
(* Python values.                                                          *)
(***************************************************************************)
\* None where a string is expected (dict.get without a default).
NONE == "<None>"
\* JSON null where an object is expected.
Null == [json_null |-> TRUE]
\* The empty JSON object {} (and the empty list []).
EmptyObj == <<>>

Min(a, b) == IF a <= b THEN a ELSE b
Max(a, b) == IF a >= b THEN a ELSE b

\* k in obj
Has(obj, k) == k \in DOMAIN obj
\* obj.get(k, d)
Get(obj, k, d) == IF Has(obj, k) THEN obj[k] ELSE d
\* x or d, for an object-valued x
PyOr(x, d) == IF x = Null \/ x = EmptyObj THEN d ELSE x
\* truthiness of a string-or-None value
Truthy(s) == s # NONE /\ s # ""

\* s[:n] of a Python list, n of either sign
Slice(s, n) == IF n >= 0 THEN SubSeq(s, 1, Min(n, Len(s)))
               ELSE SubSeq(s, 1, Max(0, Len(s) + n))

(***************************************************************************)
(* The upstream API's answers (GET /institutions, /works, /authors).       *)
(***************************************************************************)
UCLA == [id |-> "I1", display_name |-> "UCLA"]
MIT == [id |-> "I2", display_name |-> "MIT"]

\* The 'results' lists of the institution search.
InstitutionResults ==
    { <<>>,
      <<UCLA>>,
      <<MIT, UCLA>>,
      <<[display_name |-> "UCLA"]>>,
      <<[id |-> "I1"]>> }

\* The parsed bodies of the institution search: with and without 'results'.
InstitutionResponses == {EmptyObj} \cup {[results |-> r] : r \in InstitutionResults}

AuthorNames == [a \in {"A1", "A2", "A3"} |->
                  CASE a = "A1" -> "Dr. One" [] a = "A2" -> "Dr. Two" [] OTHER -> "Dr. Three"]

\* One authorship of a work: the author, and the institutions credited on that work.
Authorship(a, insts) ==
    [author |-> [id |-> a, display_name |-> AuthorNames[a]],
     institutions |-> [k \in 1..Len(insts) |-> [id |-> insts[k]]]]

\* The 'authorships' lists a work may carry.
AuthorshipLists ==
    { <<Authorship("A1", <<"I1">>)>>,
      <<Authorship("A2", <<"I2", "I1">>), Authorship("A1", <<"I1">>)>>,
      <<Authorship("A1", <<"I2">>), Authorship("A2", <<"I1">>)>>,
      <<[author |-> [display_name |-> "Anonymous"], institutions |-> <<[id |-> "I1"]>>]>>,
      <<[author |-> [id |-> "A2"], institutions |-> <<[id |-> "I1"]>>]>> }

Titles == <<"Paper 1", "Paper 2", "Paper 3", "Paper 4">>

\* The 'results' lists of the works search: work k is titled Titles[k].
WorksResults ==
    UNION { { [k \in 1..n |-> [title |-> Titles[k], authorships |-> f[k]]] :
                f \in [1..n -> AuthorshipLists] } : n \in 0..MaxWorks }

WorksResponses == {EmptyObj} \cup {[results |-> r] : r \in WorksResults}

\* A search that credits more authors than one authors batch takes: up to
\* 22 authors, all at UCLA.
Crowd ==
    << "A1", "A2", "A3", "A4", "A5", "A6", "A7", "A8", "A9", "A10", "A11",
       "A12", "A13", "A14", "A15", "A16", "A17", "A18", "A19", "A20", "A21", "A22" >>

CrowdAuthorship(a) ==
    [author |-> [id |-> a,
                 display_name |-> IF a \in DOMAIN AuthorNames THEN AuthorNames[a]
                                  ELSE "Dr. Other"],
     institutions |-> <<[id |-> "I1"]>>]

Reversed(s) == [k \in 1..Len(s) |-> s[Len(s) + 1 - k]]

\* The first n authors of the crowd, as listed or last first.
CrowdLists ==
    UNION { { SubSeq(Crowd, 1, n), Reversed(SubSeq(Crowd, 1, n)) } : n \in {19, 20, 21, 22} }

\* The authors of a second work: authors late in the crowd, or the first one.
SecondLists == { <<"A22">>, <<"A21", "A22">>, <<"A1">> }

CrowdedWork(k, ids) ==
    [title |-> Titles[k], authorships |-> [j \in 1..Len(ids) |-> CrowdAuthorship(ids[j])]]

CrowdedWorksResults ==
    { <<CrowdedWork(1, c)>> : c \in CrowdLists }
    \cup { <<CrowdedWork(1, c), CrowdedWork(2, d)>> : c \in CrowdLists, d \in SecondLists }

CrowdedWorksResponses == {[results |-> r] : r \in CrowdedWorksResults}

Topic(field, name) == [display_name |-> name, field |-> [display_name |-> field]]
CS == Topic("Computer Science", "Machine Learning")
Maths == Topic("Mathematics", "Combinatorics")
Eng == Topic("Engineering", "Robotics")
Bio == Topic("Biology", "Genetics")
\* A topic the API lists without a display_name.
Unnamed == [field |-> [display_name |-> "Biology"]]

\* summary_stats: {h_index, 2yr_mean_citedness}
Stats(h) == [h_index |-> h] @@ ("2yr_mean_citedness" :> h + 1)

Profile(a, stats, topics) ==
    [id |-> a, display_name |-> AuthorNames[a], summary_stats |-> stats, topics |-> topics]

\* The author profiles an authors response may list.
Profiles ==
    { Profile("A2", Stats(0), <<Unnamed, Bio, Maths>>),
      Profile("A2", Stats(2), <<Eng>>),
      Profile("A1", Null, <<CS>>),
      Profile("A1", Stats(2), <<Bio, Bio, Bio, CS>>),
      Profile("A2", Stats(2), <<>>),
      Profile("A3", Stats(1), <<CS>>) }

AuthorsResults == UNION { [1..n -> Profiles] : n \in 0..MaxProfiles }

AuthorsResponses == {EmptyObj} \cup {[results |-> r] : r \in AuthorsResults}

\* The values of limit a caller passes.
Limits == {-1, 0, 1, DefaultLimit}

\* The values of email a FacultyAgent is constructed with: the default None,
\* the empty string and an address.
Emails == {NONE, "", "prof@ucla.edu"}

(***************************************************************************)
(* The state of the agent and of one request.                              *)
(***************************************************************************)
VARIABLES
    email,          \* the email argument of the constructor
    headers,        \* self.headers
    pc,             \* the stage the request is in
    limit,          \* the limit argument
    requests,       \* the requests.get calls issued so far, in order
    inst_res,       \* the parsed institution response
    school_id,      \* inst_res['results'][0]['id']
    school_display, \* inst_res['results'][0]['display_name']
    works_data,     \* the parsed works response
    author_scores,  \* the author aggregate, in insertion order
    top_ids,        \* the identifiers sent to /authors
    author_res,     \* the parsed authors response
    verified_list,  \* the Faculty records built so far
    results,        \* the ranked, truncated records
    save_calls,     \* the arguments of storage.save_faculty, one per call
    returned        \* <<value>> once get_experts has returned value

vars == <<email, headers, pc, limit, requests, inst_res, school_id, school_display, works_data, author_scores,
          top_ids, author_res, verified_list, results, save_calls, returned>>

\* The product token of the User-Agent header.
ProductToken == "FacultyAgent/1.0"

\* AgentStr without the conditional: the contact comment is always attached.
AgentStrAlwaysMailto(e) == <<ProductToken, " (mailto:", e, ")">>

\* f"FacultyAgent/1.0 (mailto:{email})" if email else "FacultyAgent/1.0",
\* as the sequence of the pieces the string is put together from.
AgentStr(e) == IF Truthy(e) THEN <<ProductToken, " (mailto:", e, ")">> ELSE <<ProductToken>>

\* {"User-Agent": agent_str}
Headers(e) == "User-Agent" :> AgentStr(e)

\* The state after FacultyAgent(storage, e), before any get_experts call.
Constructed(e) ==
    /\ email = e
    /\ headers = Headers(e)
    /\ pc = "Idle"
    /\ limit = DefaultLimit
    /\ requests = <<>>
    /\ inst_res = EmptyObj
    /\ school_id = NONE
    /\ school_display = NONE
    /\ works_data = EmptyObj
    /\ author_scores = <<>>
    /\ top_ids = <<>>
    /\ author_res = EmptyObj
    /\ verified_list = <<>>
    /\ results = <<>>
    /\ save_calls = <<>>
    /\ returned = <<>>

\* FacultyAgent(storage): email defaults to None.
Init == Constructed(NONE)

\* FacultyAgent(storage, email), for every email.
InitAnyEmail == \E e \in Emails : Constructed(e)

(***************************************************************************)
(* Step 3: the author aggregate (author_scores), an insertion-ordered dict *)
(* kept as the sequence of its entries.                                    *)
(***************************************************************************)
\* is_at_school without the comparison with school_id: any credited institution counts.
is_at_any_school(authorship, sid) == Len(Get(authorship, "institutions", <<>>)) > 0

\* any(inst.get('id') == school_id for inst in authorship.get('institutions', []))
is_at_school(authorship, sid) ==
    LET insts == Get(authorship, "institutions", <<>>)
    IN  \E k \in 1..Len(insts) : Get(insts[k], "id", NONE) = sid

\* authorship.get('author', {}).get('id')
AuthorId(authorship) == Get(Get(authorship, "author", EmptyObj), "id", NONE)

\* the keys of author_scores, in insertion order
Keys(scores) == [k \in 1..Len(scores) |-> scores[k].id]
KeySet(scores) == {scores[k].id : k \in 1..Len(scores)}
\* author_scores[a], for a key a
Entry(scores, a) == scores[CHOOSE k \in 1..Len(scores) : scores[k].id = a]

\* The body of the inner loop for one authorship of one work.  acc is
\* [failed, scores]: failed once a KeyError has ended the request.
ScoreAuthorship(acc, work, authorship, sid) ==
    LET a == AuthorId(authorship)
    IN  IF acc.failed \/ ~is_at_school(authorship, sid) THEN acc
        ELSE IF Truthy(a) /\ a \notin KeySet(acc.scores)
        THEN IF ~Has(authorship["author"], "display_name")
             THEN [acc EXCEPT !.failed = TRUE]
             ELSE [acc EXCEPT !.scores =
                      Append(@, [id |-> a,
                                 name |-> authorship["author"]["display_name"],
                                 top_paper |-> Get(work, "title", NONE),
                                 count |-> 1])]
        ELSE IF Truthy(a)
        THEN [acc EXCEPT !.scores =
                 [k \in 1..Len(@) |->
                     IF @[k].id = a THEN [@[k] EXCEPT !.count = @ + 1] ELSE @[k]]]
        ELSE acc

RECURSIVE ScoreWork(_, _, _, _)
\* for authorship in work.get('authorships', []), from the j-th on
ScoreWork(acc, work, j, sid) ==
    LET authorships == Get(work, "authorships", <<>>)
    IN  IF j > Len(authorships) THEN acc
        ELSE \* next: the aggregate after the j-th authorship, computed once
             CHOOSE r \in {ScoreWork(next, work, j + 1, sid) :
                             next \in {ScoreAuthorship(acc, work, authorships[j], sid)}} : TRUE

RECURSIVE ScoreWorks(_, _, _, _)
\* for work in works_data.get('results', []), from the i-th on
ScoreWorks(acc, works, i, sid) ==
    IF i > Len(works) THEN acc
    ELSE \* next: the aggregate after the i-th work, computed once
         CHOOSE r \in {ScoreWorks(next, works, i + 1, sid) :
                         next \in {ScoreWork(acc, works[i], 1, sid)}} : TRUE

Aggregate(data, sid) ==
    ScoreWorks([failed |-> FALSE, scores |-> <<>>], Get(data, "results", <<>>), 1, sid)

\* TopIds taking the authors with the highest counts: the keys in descending
\* order of count (ties in insertion order), cut at the cap.
TopIdsByCount(scores) ==
    LET rank(k) == Cardinality({j \in 1..Len(scores) :
                       \/ scores[j].count > scores[k].count
                       \/ scores[j].count = scores[k].count /\ j < k})
    IN  Slice([i \in 1..Len(scores) |->
                  scores[CHOOSE k \in 1..Len(scores) : rank(k) = i - 1].id], AuthorCap)

\* list(author_scores.keys())[:20]
TopIds(scores) == Slice(Keys(scores), AuthorCap)

\* NoTopIds without the guard of line 54: the request goes on with no identifiers.
NoTopIdsNoGuard(ids) == FALSE

\* if not top_ids: return []
NoTopIds(ids) == Len(ids) = 0

(***************************************************************************)
(* Step 4: the profiles, the technical-field filter and the Faculty        *)
(* records.                                                                *)
(***************************************************************************)
\* is_technical without the [:3] window: any topic counts.
is_technical_any_topic(topics) ==
    \E k \in 1..Len(topics) :
       Get(Get(topics[k], "field", EmptyObj), "display_name", NONE) \in technical_fields

\* any(t.get('field', {}).get('display_name') in technical_fields for t in topics[:3])
is_technical(topics) ==
    LET window == Slice(topics, TopicWindow)
    IN  \E k \in 1..Len(window) :
           Get(Get(window[k], "field", EmptyObj), "display_name", NONE) \in technical_fields

\* (author.get('summary_stats') or {}).get('h_index', 0)
HIndexOf(author) == Get(PyOr(Get(author, "summary_stats", Null), EmptyObj), "h_index", 0)

\* topics[0].get('display_name') if topics else "Researcher"
SpecialtyOf(topics) ==
    IF Len(topics) > 0 THEN Get(topics[1], "display_name", NONE) ELSE "Researcher"

\* The Faculty dataclass: the six fields get_experts passes, the rest defaulted.
Faculty(name, id, h_index, specialty, top_paper, last_known_institution) ==
    [name |-> name, id |-> id, h_index |-> h_index, specialty |-> specialty,
     top_paper |-> top_paper, last_known_institution |-> last_known_institution,
     orcid |-> NONE, works_count |-> DefaultCount, total_citations |-> DefaultCount,
     impact_score |-> DefaultImpactScore]

\* RecordRaises for author['summary_stats'].get('h_index', 0), without "or {}":
\* a null summary_stats raises as well.
RecordRaisesOnNullStats(author, scores) ==
    \/ ~Has(author, "display_name")
    \/ ~Has(author, "id")
    \/ author["id"] \notin KeySet(scores)
    \/ Get(author, "summary_stats", Null) = Null

\* Whether building the Faculty record of a technical profile raises KeyError:
\* author['display_name'], author['id'], author_scores[author['id']].
RecordRaises(author, scores) ==
    \/ ~Has(author, "display_name")
    \/ ~Has(author, "id")
    \/ author["id"] \notin KeySet(scores)

\* VerifyAuthor with "if author['id'] not in author_scores: continue": a
\* profile the aggregate does not know is skipped instead of raising.
VerifyAuthorSkipsUnknown(acc, author, scores, display) ==
    LET topics == Get(author, "topics", <<>>)
    IN  IF acc.failed \/ ~is_technical(topics) THEN acc
        ELSE IF RecordRaises(author, scores) THEN acc
        ELSE [acc EXCEPT !.list =
                 Append(@, Faculty(author["display_name"], author["id"], HIndexOf(author),
                                   SpecialtyOf(topics),
                                   Entry(scores, author["id"]).top_paper, display))]

\* The body of the loop for one profile.  acc is [failed, list].
VerifyAuthor(acc, author, scores, display) ==
    LET topics == Get(author, "topics", <<>>)
    IN  IF acc.failed \/ ~is_technical(topics) THEN acc
        ELSE IF RecordRaises(author, scores) THEN [acc EXCEPT !.failed = TRUE]
        ELSE [acc EXCEPT !.list =
                 Append(@, Faculty(author["display_name"], author["id"], HIndexOf(author),
                                   SpecialtyOf(topics),
                                   Entry(scores, author["id"]).top_paper, display))]

RECURSIVE VerifyAuthors(_, _, _, _, _)
\* for author in author_res.get('results', []), from the i-th on
VerifyAuthors(acc, authors, i, scores, display) ==
    IF i > Len(authors) THEN acc
    ELSE \* next: the list after the i-th profile, computed once
         CHOOSE r \in {VerifyAuthors(next, authors, i + 1, scores, display) :
                         next \in {VerifyAuthor(acc, authors[i], scores, display)}} : TRUE

Enrich(res, scores, display) ==
    VerifyAuthors([failed |-> FALSE, list |-> <<>>], Get(res, "results", <<>>), 1,
                  scores, display)

(***************************************************************************)
(* Step 5: sorted(verified_list, key=lambda x: x.h_index, reverse=True).   *)
(* Python's sort is stable, also with reverse=True: records with equal     *)
(* keys keep their original order.                                         *)
(***************************************************************************)
\* InsertRanked of an unstable sort: rec goes in front of the records it ties with.
InsertRankedBeforeTies(s, rec) ==
    LET n == Cardinality({k \in 1..Len(s) : s[k].h_index > rec.h_index})
    IN  SubSeq(s, 1, n) \o <<rec>> \o SubSeq(s, n + 1, Len(s))

\* rec placed into the ranked list s behind every record that is not below it
InsertRanked(s, rec) ==
    LET n == Cardinality({k \in 1..Len(s) : s[k].h_index >= rec.h_index})
    IN  SubSeq(s, 1, n) \o <<rec>> \o SubSeq(s, n + 1, Len(s))

RECURSIVE RankFrom(_, _, _)
RankFrom(s, list, i) ==
    IF i > Len(list) THEN s
    ELSE \* next: the ranked list with the i-th record in place, computed once
         CHOOSE r \in {RankFrom(next, list, i + 1) : next \in {InsertRanked(s, list[i])}} : TRUE

SortedByHIndex(list) == RankFrom(<<>>, list, 1)

(***************************************************************************)
(* The request, stage by stage.  A stage that raises ends the request in   *)
(* "Failed": the exception leaves get_experts and nothing is returned.     *)
(***************************************************************************)
Request(endpoint, ids) == [endpoint |-> endpoint, ids |-> ids, headers |-> headers]

\* The caller invokes get_experts(school_name, keywords, limit).
Call ==
    /\ pc = "Idle"
    /\ \E l \in Limits : limit' = l
    /\ pc' = "ResolvingInstitution"
    /\ UNCHANGED <<requests, inst_res, school_id, school_display, works_data,
                   author_scores, top_ids, author_res, verified_list, results,
                   save_calls, returned>>
    /\ UNCHANGED <<email, headers>>

\* InstitutionRequestFails inside a retry loop: the first failure of the
\* institution request is followed by a second attempt.
InstitutionRequestRetried ==
    /\ pc = "ResolvingInstitution"
    /\ requests' = Append(requests, Request("institutions", <<>>))
    /\ pc' = IF Len(requests) = 0 THEN "ResolvingInstitution" ELSE "Failed"
    /\ UNCHANGED <<limit, inst_res, school_id, school_display, works_data, author_scores,
                   top_ids, author_res, verified_list, results, save_calls, returned>>
    /\ UNCHANGED <<email, headers>>

\* requests.get(.../institutions) or its .json() raises.
InstitutionRequestFails ==
    /\ pc = "ResolvingInstitution"
    /\ requests' = Append(requests, Request("institutions", <<>>))
    /\ pc' = "Failed"
    /\ UNCHANGED <<limit, inst_res, school_id, school_display, works_data, author_scores,
                   top_ids, author_res, verified_list, results, save_calls, returned>>
    /\ UNCHANGED <<email, headers>>

\* ResolveOutcome without the guard of line 19: results[0] of an empty list raises.
ResolveOutcomeNoGuard(res) ==
    IF ~Has(res, "results") THEN "raise"
    ELSE IF Len(res["results"]) = 0 THEN "raise"
    ELSE IF ~Has(res["results"][1], "id") \/ ~Has(res["results"][1], "display_name")
    THEN "raise"
    ELSE "resolved"

\* ResolveOutcome inside "try: ... except KeyError: return []": a response
\* without the keys is taken for an unknown school.
ResolveOutcomeSwallowsErrors(res) ==
    IF ~Has(res, "results") THEN "empty"
    ELSE IF Len(res["results"]) = 0 THEN "empty"
    ELSE IF ~Has(res["results"][1], "id") \/ ~Has(res["results"][1], "display_name")
    THEN "empty"
    ELSE "resolved"

\* Lines 19-21 on the parsed institution response: inst_res['results'] raises
\* KeyError without the key, an empty list returns [], and results[0]['id'],
\* results[0]['display_name'] raise KeyError without their keys.
ResolveOutcome(res) ==
    IF ~Has(res, "results") THEN "raise"
    ELSE IF Len(res["results"]) = 0 THEN "empty"
    ELSE IF ~Has(res["results"][1], "id") \/ ~Has(res["results"][1], "display_name")
    THEN "raise"
    ELSE "resolved"

\* Authoritative taking the last result of the search instead of the first.
LastResult(res) == res["results"][Len(res["results"])]

\* inst_res['results'][0]: the institution the rest of the request works with.
Authoritative(res) == res["results"][1]

\* Step 1: the institution search answers.
ResolveInstitution ==
    /\ pc = "ResolvingInstitution"
    /\ requests' = Append(requests, Request("institutions", <<>>))
    /\ \E res \in InstitutionResponses :
          /\ inst_res' = res
          /\ CASE ResolveOutcome(res) = "raise" ->
                    /\ pc' = "Failed"
                    /\ UNCHANGED <<school_id, school_display, returned>>
               [] ResolveOutcome(res) = "empty" ->
                    /\ pc' = "TerminatedEmpty"
                    /\ returned' = << <<>> >>
                    /\ UNCHANGED <<school_id, school_display>>
               [] OTHER ->
                    /\ school_id' = Authoritative(res)["id"]
                    /\ school_display' = Authoritative(res)["display_name"]
                    /\ pc' = "FindingWorks"
                    /\ UNCHANGED returned
    /\ UNCHANGED <<limit, works_data, author_scores, top_ids, author_res,
                   verified_list, results, save_calls>>
    /\ UNCHANGED <<email, headers>>

\* requests.get(.../works) or its .json() raises.
WorksRequestFails ==
    /\ pc = "FindingWorks"
    /\ requests' = Append(requests, Request("works", <<school_id>>))
    /\ pc' = "Failed"
    /\ UNCHANGED <<limit, inst_res, school_id, school_display, works_data, author_scores,
                   top_ids, author_res, verified_list, results, save_calls, returned>>
    /\ UNCHANGED <<email, headers>>

\* Step 2: the works search answers with one of responses.
FindWorksIn(responses) ==
    /\ pc = "FindingWorks"
    /\ requests' = Append(requests, Request("works", <<school_id>>))
    /\ \E data \in responses : works_data' = data
    /\ pc' = "AggregatingAuthors"
    /\ UNCHANGED <<limit, inst_res, school_id, school_display, author_scores, top_ids,
                   author_res, verified_list, results, save_calls, returned>>
    /\ UNCHANGED <<email, headers>>

FindWorks == FindWorksIn(WorksResponses)

\* The works search answers with a crowded work.
FindCrowdedWorks == FindWorksIn(CrowdedWorksResponses)

\* Step 3: the aggregation loop, then top_ids and the early exit.
AggregateAuthors ==
    /\ pc = "AggregatingAuthors"
    /\ LET agg == Aggregate(works_data, school_id)
       IN  IF agg.failed
           THEN /\ pc' = "Failed"
                /\ UNCHANGED <<author_scores, top_ids, returned>>
           ELSE /\ author_scores' = agg.scores
                /\ top_ids' = TopIds(agg.scores)
                /\ IF NoTopIds(TopIds(agg.scores))
                   THEN pc' = "TerminatedEmpty" /\ returned' = << <<>> >>
                   ELSE pc' = "EnrichingProfiles" /\ UNCHANGED returned
    /\ UNCHANGED <<limit, requests, inst_res, school_id, school_display, works_data,
                   author_res, verified_list, results, save_calls>>
    /\ UNCHANGED <<email, headers>>

\* requests.get(.../authors) or its .json() raises.
AuthorsRequestFails ==
    /\ pc = "EnrichingProfiles"
    /\ requests' = Append(requests, Request("authors", top_ids))
    /\ pc' = "Failed"
    /\ UNCHANGED <<limit, inst_res, school_id, school_display, works_data, author_scores,
                   top_ids, author_res, verified_list, results, save_calls, returned>>
    /\ UNCHANGED <<email, headers>>

\* Step 4: the authors batch answers; the filter loop builds verified_list.
EnrichProfiles ==
    /\ pc = "EnrichingProfiles"
    /\ requests' = Append(requests, Request("authors", top_ids))
    /\ \E res \in AuthorsResponses :
          /\ author_res' = res
          /\ LET enriched == Enrich(res, author_scores, school_display)
             IN  IF enriched.failed
                 THEN pc' = "Failed" /\ UNCHANGED verified_list
                 ELSE pc' = "Ranking" /\ verified_list' = enriched.list
    /\ UNCHANGED <<limit, inst_res, school_id, school_display, works_data, author_scores,
                   top_ids, results, save_calls, returned>>
    /\ UNCHANGED <<email, headers>>

\* Step 5: results = sorted(verified_list, ...)[:limit]
Rank ==
    /\ pc = "Ranking"
    /\ results' = Slice(SortedByHIndex(verified_list), limit)
    /\ pc' = "Persisting"
    /\ UNCHANGED <<limit, requests, inst_res, school_id, school_display, works_data,
                   author_scores, top_ids, author_res, verified_list, save_calls,
                   returned>>
    /\ UNCHANGED <<email, headers>>

\* SaveFaculty guarded by "if results:": an empty result is not handed over.
SaveFacultyUnlessEmpty(calls, arg) == IF Len(arg) = 0 THEN calls ELSE Append(calls, arg)

\* The storage collaborator (a mock in the tests): save_faculty(arg) records arg.
SaveFaculty(calls, arg) == Append(calls, arg)

\* self.storage.save_faculty(results)
Persist ==
    /\ pc = "Persisting"
    /\ save_calls' = SaveFaculty(save_calls, results)
    /\ pc' = "Returning"
    /\ UNCHANGED <<limit, requests, inst_res, school_id, school_display, works_data,
                   author_scores, top_ids, author_res, verified_list, results,
                   returned>>
    /\ UNCHANGED <<email, headers>>

\* return results
Return ==
    /\ pc = "Returning"
    /\ returned' = <<results>>
    /\ pc' = "Done"
    /\ UNCHANGED <<limit, requests, inst_res, school_id, school_display, works_data,
                   author_scores, top_ids, author_res, verified_list, results,
                   save_calls>>
    /\ UNCHANGED <<email, headers>>

Next ==
    \/ Call
    \/ InstitutionRequestFails
    \/ ResolveInstitution
    \/ WorksRequestFails
    \/ FindWorks
    \/ AggregateAuthors
    \/ AuthorsRequestFails
    \/ EnrichProfiles
    \/ Rank
    \/ Persist
    \/ Return

Spec == Init /\ [][Next]_vars

\* The same request, where every step that can be taken is taken: the code is
\* sequential and synchronous, and each blocking network call ends, with an
\* answer or with an exception.
SpecFair == Init /\ [][Next]_vars /\ WF_vars(Next)

\* The same request, by an agent constructed with any email.
SpecAnyEmail == InitAnyEmail /\ [][Next]_vars

\* The same request, with a works search that credits a crowd of authors.
NextCrowded ==
    \/ Call
    \/ InstitutionRequestFails
    \/ ResolveInstitution
    \/ WorksRequestFails
    \/ FindCrowdedWorks
    \/ AggregateAuthors
    \/ AuthorsRequestFails
    \/ EnrichProfiles
    \/ Rank
    \/ Persist
    \/ Return

SpecCrowded == Init /\ [][NextCrowded]_vars

(***************************************************************************)
(* Vocabulary of the claims.                                               *)
(***************************************************************************)
\* The number of requests issued to an endpoint so far.
RequestsTo(endpoint) ==
    Cardinality({k \in 1..Len(requests) : requests[k].endpoint = endpoint})

\* get_experts has returned the empty sequence.
ReturnedEmpty == returned = << <<>> >>

\* The institution search has answered with an empty result list.
InstitutionNotFound == Has(inst_res, "results") /\ Len(inst_res["results"]) = 0

\* The aggregation loop has run to its end without raising.
AggregationCompleted ==
    \/ pc \in {"EnrichingProfiles", "Ranking", "Persisting", "Returning", "Done"}
    \/ pc = "TerminatedEmpty" /\ school_id # NONE
    \/ pc = "Failed" /\ RequestsTo("authors") > 0

\* The works of the works response, and the authorships of a work.
WorksOf(data) == IF Has(data, "results") THEN data["results"] ELSE <<>>
AuthorshipsOf(work) == IF Has(work, "authorships") THEN work["authorships"] ELSE <<>>

\* The authorship lists the institution sid among the institutions of its work.
ListsInstitution(authorship, sid) ==
    /\ Has(authorship, "institutions")
    /\ \E k \in DOMAIN authorship["institutions"] :
          /\ Has(authorship["institutions"][k], "id")
          /\ authorship["institutions"][k]["id"] = sid

\* No authorship of any returned work lists the target institution.
NoAuthorshipAtSchool ==
    \A i \in DOMAIN WorksOf(works_data) :
       \A j \in DOMAIN AuthorshipsOf(WorksOf(works_data)[i]) :
          ~ListsInstitution(AuthorshipsOf(WorksOf(works_data)[i])[j], school_id)

(***************************************************************************)
(* C1.  If the institution search returns an empty result list, the        *)
(* request ends by returning the empty sequence, the institution request   *)
(* is the only request issued (no works request, no authors request), and  *)
(* save_faculty is never invoked.                                          *)
(***************************************************************************)
C1_UnknownSchoolReturnsEmpty ==
    InstitutionNotFound =>
        /\ pc = "TerminatedEmpty"
        /\ ReturnedEmpty
        /\ RequestsTo("works") = 0
        /\ RequestsTo("authors") = 0
        /\ requests = <<Request("institutions", <<>>)>>
        /\ save_calls = <<>>

C1_Witness == InstitutionNotFound /\ pc = "TerminatedEmpty" /\ returned # <<>>

AuthorOf(authorship) ==
    IF Has(authorship, "author") /\ Has(authorship["author"], "id")
    THEN authorship["author"]["id"] ELSE NONE

\* The works (by position) on which author a holds an authorship that lists
\* the target institution: the qualifying works of a.
QualifyingWorks(a) ==
    {i \in DOMAIN WorksOf(works_data) :
        \E j \in DOMAIN AuthorshipsOf(WorksOf(works_data)[i]) :
           LET authorship == AuthorshipsOf(WorksOf(works_data)[i])[j]
           IN  AuthorOf(authorship) = a /\ ListsInstitution(authorship, school_id)}

\* The works on which a holds an authorship that does not list the target institution.
OffSchoolWorks(a) ==
    {i \in DOMAIN WorksOf(works_data) :
        \E j \in DOMAIN AuthorshipsOf(WorksOf(works_data)[i]) :
           LET authorship == AuthorshipsOf(WorksOf(works_data)[i])[j]
           IN  AuthorOf(authorship) = a /\ ~ListsInstitution(authorship, school_id)}

AuthorIds == DOMAIN AuthorNames

\* The title of the first qualifying work of a, in the order of the response.
FirstQualifyingTitle(a) ==
    LET first == CHOOSE i \in QualifyingWorks(a) : \A k \in QualifyingWorks(a) : i <= k
    IN  WorksOf(works_data)[first]["title"]

\* The identifiers of a list of Faculty records.
IdsOf(list) == {list[k].id : k \in DOMAIN list}

\* Every record get_experts has built, ranked, saved or returned so far.
OutputIds ==
    IdsOf(verified_list) \cup IdsOf(results)
    \cup UNION {IdsOf(save_calls[k]) : k \in DOMAIN save_calls}
    \cup UNION {IdsOf(returned[k]) : k \in DOMAIN returned}

\* The records get_experts has returned.
ReturnedIds == UNION {IdsOf(returned[k]) : k \in DOMAIN returned}

Ended == pc \in {"Done", "TerminatedEmpty", "Failed"}

\* The profiles of the authors response.
ProfilesOf(res) == IF Has(res, "results") THEN res["results"] ELSE <<>>

(***************************************************************************)
(* C3.  As claimed: a request that has issued the authors batch call ends  *)
(* with save_faculty invoked exactly once, on the sequence it returns.     *)
(* This fails for a request whose enrichment stage raises.                 *)
(***************************************************************************)
C3_SavedOncePerEnrichment ==
    (Ended /\ RequestsTo("authors") > 0) =>
        /\ save_calls = <<results>>
        /\ returned = <<results>>

(***************************************************************************)
(* C3, amended.  save_faculty is invoked at most once per request; a       *)
(* request that issues the authors batch call and does not fail in the     *)
(* enrichment stage ends in Done with save invoked exactly once, on the    *)
(* ranked, limit-truncated sequence that it then returns (also when that   *)
(* sequence is empty); a request that fails, or that issues no authors     *)
(* call, never invokes save.                                               *)
(***************************************************************************)
C3_SavedOncePerCompletedEnrichment ==
    /\ Len(save_calls) <= 1
    /\ RequestsTo("authors") = 0 => save_calls = <<>>
    /\ pc = "Failed" => save_calls = <<>> /\ returned = <<>>
    /\ pc \in {"EnrichingProfiles", "Ranking", "Persisting"} => save_calls = <<>>
    /\ pc = "Returning" => save_calls = <<results>> /\ returned = <<>>
    /\ (Ended /\ RequestsTo("authors") > 0) => pc \in {"Done", "Failed"}
    /\ pc = "Done" =>
           /\ RequestsTo("authors") = 1
           /\ results = Slice(SortedByHIndex(verified_list), limit)
           /\ save_calls = <<results>>
           /\ returned = <<results>>

\* Every profile of a non-empty authors response was filtered out, and the
\* empty sequence was saved and returned.
C3_Witness ==
    /\ pc = "Done"
    /\ Len(ProfilesOf(author_res)) > 0
    /\ verified_list = <<>>
    /\ save_calls = << <<>> >>
    /\ returned = << <<>> >>

(***************************************************************************)
(* C4.  As claimed: an author credited on some work with an authorship     *)
(* that does not list the target institution never appears in the output.  *)
(* This fails for an author who also holds a qualifying authorship.        *)
(***************************************************************************)
C4_OffSchoolAuthorshipExcludes ==
    pc = "Done" => \A a \in AuthorIds : OffSchoolWorks(a) # {} => a \notin ReturnedIds

(***************************************************************************)
(* C4, amended.  An author none of whose authorships in the returned works *)
(* lists the target institution never appears in the output: every record  *)
(* built, saved or returned belongs to an author with at least one         *)
(* authorship that lists the target institution.                           *)
(***************************************************************************)
C4_OnlyAuthorsAtSchool ==
    \A a \in OutputIds : QualifyingWorks(a) # {}

\* A request that returned records while the works also credit an author
\* who is never at the target institution.
C4_Witness ==
    /\ pc = "Done"
    /\ Len(results) > 0
    /\ \E a \in AuthorIds : OffSchoolWorks(a) # {} /\ QualifyingWorks(a) = {}

(***************************************************************************)
(* C5.  An author with two or more qualifying works who is part of the     *)
(* returned sequence is there exactly once, and the record's top_paper is  *)
(* the title of the first qualifying work in the order of the works        *)
(* response.                                                               *)
(***************************************************************************)
C5_OnceWithFirstPaper ==
    pc = "Done" =>
        \A a \in IdsOf(results) :
            Cardinality(QualifyingWorks(a)) >= 2 =>
                /\ Cardinality({k \in DOMAIN results : results[k].id = a}) = 1
                /\ \A k \in DOMAIN results :
                       results[k].id = a => results[k].top_paper = FirstQualifyingTitle(a)

\* The part of C5 that the code keeps: the first-seen title is never overwritten.
FirstPaperKept ==
    \A k \in DOMAIN results :
        results[k].top_paper = FirstQualifyingTitle(results[k].id)

(***************************************************************************)
(* More vocabulary: the profiles of the authors response.                  *)
(***************************************************************************)
\* The enrichment loop has run to its end without raising.
EnrichmentCompleted == pc \in {"Ranking", "Persisting", "Returning", "Done"}

\* The sorted, truncated result exists.
Ranked == pc \in {"Persisting", "Returning", "Done"}

\* The parent field name of a topic, NONE without one.
FieldOf(topic) ==
    IF Has(topic, "field") /\ Has(topic["field"], "display_name")
    THEN topic["field"]["display_name"] ELSE NONE

AllowList == {"Computer Science", "Mathematics", "Engineering"}

\* At least one of the first three topics of the profile has an allow-listed field.
AllowListedEarly(profile) ==
    /\ Has(profile, "topics")
    /\ \E k \in DOMAIN profile["topics"] :
          k <= 3 /\ FieldOf(profile["topics"][k]) \in AllowList

\* The profiles of the authors response that pass the field filter, in order.
KeptProfiles == SelectSeq(ProfilesOf(author_res), AllowListedEarly)

(***************************************************************************)
(* C6.  The ranked result is the stable sort of the kept records by        *)
(* h-index descending, cut to a prefix: going down the result the h-index  *)
(* never increases, records with equal h-index keep the order in which     *)
(* the authors response listed their profiles, and with a limit that       *)
(* truncates nothing every kept record is there.                           *)
(***************************************************************************)
C6_StableDescendingHIndex ==
    Ranked =>
        /\ Len(results) <= Len(verified_list)
        /\ limit >= Len(verified_list) => Len(results) = Len(verified_list)
        /\ \E p \in [DOMAIN verified_list -> DOMAIN verified_list] :
              /\ \A i, j \in DOMAIN verified_list :
                    i < j => \/ verified_list[p[i]].h_index > verified_list[p[j]].h_index
                             \/ /\ verified_list[p[i]].h_index = verified_list[p[j]].h_index
                                /\ p[i] < p[j]
              /\ \A i \in DOMAIN results :
                    /\ results[i] = verified_list[p[i]]
                    /\ results[i].id = KeptProfiles[p[i]]["id"]

\* Two different authors with the same h-index were returned.
C6_Witness ==
    /\ pc = "Done"
    /\ Len(results) = 2
    /\ results[1].h_index = results[2].h_index
    /\ results[1].id # results[2].id

(***************************************************************************)
(* C7.  With k kept records the returned sequence is the first             *)
(* min(limit, k) records of the ranked order, for every limit: it has at   *)
(* most limit records and never fewer than are available.  A negative      *)
(* limit is read in the claim's favour, as allowing no record at all.      *)
(***************************************************************************)
C7_FirstMinLimitRecords ==
    pc = "Done" =>
        /\ Len(results) <= Max(limit, 0)
        /\ results = SubSeq(SortedByHIndex(verified_list), 1,
                            Min(limit, Len(verified_list)))

\* The part of C7 that the code keeps: limits that are not negative.
NonNegativeLimitTruncates ==
    (pc = "Done" /\ limit >= 0) =>
        /\ Len(results) = Min(limit, Len(verified_list))
        /\ results = SubSeq(SortedByHIndex(verified_list), 1,
                            Min(limit, Len(verified_list)))

(***************************************************************************)
(* C8.  The records built from an authors response are exactly those of    *)
(* the profiles with an allow-listed parent field among their first three  *)
(* topics, in the order of the response: a profile without topics, with    *)
(* other fields only, or with its only allow-listed field on a fourth or   *)
(* later topic yields no record.                                           *)
(***************************************************************************)
C8_KeptIffAllowListedEarly ==
    EnrichmentCompleted =>
        LET kept == KeptProfiles
        IN  /\ Len(verified_list) = Len(kept)
            /\ \A k \in DOMAIN verified_list :
                  /\ verified_list[k].id = kept[k]["id"]
                  /\ verified_list[k].name = kept[k]["display_name"]

\* A response of two profiles, one kept and one whose topic list is longer
\* than three (its allow-listed field is on the fourth topic).
C8_Witness ==
    /\ pc = "Done"
    /\ Len(ProfilesOf(author_res)) = 2
    /\ Len(verified_list) = 1
    /\ \E k \in DOMAIN ProfilesOf(author_res) :
          /\ Len(ProfilesOf(author_res)[k]["topics"]) > 3
          /\ ~AllowListedEarly(ProfilesOf(author_res)[k])

(***************************************************************************)
(* C9.  A kept profile whose summary_stats is null yields a record with    *)
(* h-index 0 and impact score 0, and the null does not fail the request:   *)
(* the enrichment loop raises only on a kept profile that lacks a key or   *)
(* whose identifier is not in the author aggregate.                        *)
(***************************************************************************)
C9_NullStatsDefaultToZero ==
    LET kept == KeptProfiles
    IN  /\ EnrichmentCompleted =>
               \A k \in DOMAIN kept :
                  (k \in DOMAIN verified_list /\ kept[k]["summary_stats"] = Null) =>
                      /\ verified_list[k].h_index = 0
                      /\ verified_list[k].impact_score = 0
        /\ (pc = "Failed" /\ Has(author_res, "results")) =>
               \E k \in DOMAIN kept :
                  \/ ~Has(kept[k], "id")
                  \/ ~Has(kept[k], "display_name")
                  \/ kept[k]["id"] \notin IdsOf(author_scores)

\* A returned record built from a profile with null summary_stats.
C9_Witness ==
    /\ pc = "Done"
    /\ \E k \in DOMAIN KeptProfiles :
          /\ KeptProfiles[k]["summary_stats"] = Null
          /\ k \in DOMAIN verified_list
          /\ verified_list[k].h_index = 0
          /\ \E i \in DOMAIN results : results[i] = verified_list[k]

(***************************************************************************)
(* C10.  In the sequence get_experts returns, every record's identifier    *)
(* is non-empty and no two records share an identifier.                    *)
(***************************************************************************)
C10_IdentifiersUnique ==
    pc = "Done" =>
        /\ \A i \in DOMAIN results : results[i].id # NONE /\ results[i].id # ""
        /\ \A i, j \in DOMAIN results : i # j => results[i].id # results[j].id

\* The part of C10 that the code keeps: identifiers are never empty.
IdentifiersNonEmpty == \A a \in OutputIds : a # NONE /\ a # ""

(***************************************************************************)
(* C11.  The institution the request works with is the first result of    *)
(* the institution search and no later one: the works request filters on  *)
(* the first result's identifier, the author aggregate holds exactly the   *)
(* authors with an authorship that lists that identifier, and every        *)
(* record built, saved or returned carries the first result's display      *)
(* name as last_known_institution.                                         *)
(***************************************************************************)
\* The records get_experts has built, ranked, saved or returned so far.
OutputRecords ==
    {verified_list[k] : k \in DOMAIN verified_list}
    \cup {results[k] : k \in DOMAIN results}
    \cup UNION {{save_calls[c][k] : k \in DOMAIN save_calls[c]} : c \in DOMAIN save_calls}
    \cup UNION {{returned[c][k] : k \in DOMAIN returned[c]} : c \in DOMAIN returned}

\* The authors with an authorship, on some returned work, that lists institution sid.
AuthorsListedAt(sid) ==
    LET works == WorksOf(works_data)
        listed(i) == LET authorships == AuthorshipsOf(works[i])
                     IN  {AuthorOf(authorships[j]) :
                            j \in {j \in DOMAIN authorships :
                                      ListsInstitution(authorships[j], sid)}}
    IN  UNION {listed(i) : i \in DOMAIN works} \ {NONE, ""}

C11_FirstInstitutionIsAuthoritative ==
    RequestsTo("works") > 0 =>
        LET first == inst_res["results"][1]
        IN  /\ \A k \in DOMAIN requests :
                  requests[k].endpoint = "works" => requests[k].ids = <<first["id"]>>
            /\ AggregationCompleted => IdsOf(author_scores) = AuthorsListedAt(first["id"])
            /\ \A rec \in OutputRecords :
                  rec.last_known_institution = first["display_name"]

\* The search listed two institutions, and a record was returned for an
\* author at the first of them.
C11_Witness ==
    /\ pc = "Done"
    /\ Len(inst_res["results"]) = 2
    /\ inst_res["results"][1] # inst_res["results"][2]
    /\ Len(results) > 0
    /\ returned = <<results>>
    /\ results[1].last_known_institution = inst_res["results"][1]["display_name"]

(***************************************************************************)
(* C12.  For each kept profile, the record's name, identifier, h-index and *)
(* impact score are the profile's own values: with summary_stats present   *)
(* the h-index is summary_stats.h_index and the impact score is            *)
(* summary_stats.2yr_mean_citedness.                                       *)
(***************************************************************************)
\* summary_stats of the profile is an object, not null.
HasStats(profile) == Has(profile, "summary_stats") /\ profile["summary_stats"] # Null

C12_RecordCarriesProfileValues ==
    EnrichmentCompleted =>
        \A k \in DOMAIN verified_list :
            /\ verified_list[k].name = KeptProfiles[k]["display_name"]
            /\ verified_list[k].id = KeptProfiles[k]["id"]
            /\ HasStats(KeptProfiles[k]) =>
                  /\ verified_list[k].h_index = KeptProfiles[k]["summary_stats"]["h_index"]
                  /\ verified_list[k].impact_score =
                         KeptProfiles[k]["summary_stats"]["2yr_mean_citedness"]

\* The part of C12 that the code keeps: name, identifier and h-index.
ProfileNameIdHIndexCarried ==
    EnrichmentCompleted =>
        \A k \in DOMAIN verified_list :
            /\ verified_list[k].name = KeptProfiles[k]["display_name"]
            /\ verified_list[k].id = KeptProfiles[k]["id"]
            /\ HasStats(KeptProfiles[k]) =>
                  verified_list[k].h_index = KeptProfiles[k]["summary_stats"]["h_index"]

(***************************************************************************)
(* C13.  The specialty of every record in the output is a non-null         *)
(* string, for every authors response, also one whose topics lack a        *)
(* display name.                                                           *)
(***************************************************************************)
C13_SpecialtyNeverNull ==
    pc = "Done" => \A k \in DOMAIN results : results[k].specialty # NONE

\* The part of C13 that the code keeps: a kept profile whose first topic has
\* a display name yields that name as the specialty.
NamedFirstTopicIsSpecialty ==
    EnrichmentCompleted =>
        \A k \in DOMAIN verified_list :
            Has(KeptProfiles[k]["topics"][1], "display_name") =>
                verified_list[k].specialty = KeptProfiles[k]["topics"][1]["display_name"]

(***************************************************************************)
(* C14.  The User-Agent header built at construction contains the mailto   *)
(* contact-address token when an email (a non-empty string) is configured  *)
(* and is exactly the bare product token "FacultyAgent/1.0" otherwise; the *)
(* same header value is sent on every request of a get_experts call, and   *)
(* the email has no other effect on the requests: they are the             *)
(* institution search, the works search filtered on the institution and    *)
(* the authors batch for top_ids, whatever the email.                      *)
(***************************************************************************)
\* An email address was passed to the constructor.
EmailConfigured == email # NONE /\ email # ""

\* The requests of a call apart from their headers, in the order of the code.
RequestsInOrder ==
    << [endpoint |-> "institutions", ids |-> <<>>],
       [endpoint |-> "works", ids |-> <<school_id>>],
       [endpoint |-> "authors", ids |-> top_ids] >>

C14_UserAgentOnEveryRequest ==
    LET agent == headers["User-Agent"]
    IN  /\ DOMAIN headers = {"User-Agent"}
        /\ EmailConfigured =>
              /\ agent[1] = "FacultyAgent/1.0"
              /\ \E k \in DOMAIN agent :
                    /\ agent[k] = " (mailto:"
                    /\ k + 1 \in DOMAIN agent
                    /\ agent[k + 1] = email
        /\ ~EmailConfigured => agent = <<"FacultyAgent/1.0">>
        /\ Len(requests) <= 3
        /\ \A k \in DOMAIN requests :
              /\ requests[k].headers = headers
              /\ requests[k].endpoint = RequestsInOrder[k].endpoint
              /\ requests[k].ids = RequestsInOrder[k].ids

\* A request by an agent with an email configured that issued all three
\* requests and returned records.
C14_Witness ==
    /\ EmailConfigured
    /\ pc = "Done"
    /\ Len(requests) = 3
    /\ Len(results) > 0
    /\ requests[3].headers["User-Agent"] = <<"FacultyAgent/1.0", " (mailto:", email, ")">>

(***************************************************************************)
(* More vocabulary: the order in which the works response mentions the     *)
(* authors at the target institution.                                      *)
(***************************************************************************)
\* The identifiers work i credits with an authorship that lists the target
\* institution, in the order of its authorships.
MentionsOfWork(i) ==
    LET authorships == AuthorshipsOf(WorksOf(works_data)[i])
        listed(authorship) ==    ListsInstitution(authorship, school_id)
                              /\ AuthorOf(authorship) # NONE
                              /\ AuthorOf(authorship) # ""
        kept == SelectSeq(authorships, listed)
    IN  [j \in DOMAIN kept |-> AuthorOf(kept[j])]

RECURSIVE MentionsUpTo(_)
\* The mentions of the works 1..n, work after work.
MentionsUpTo(n) == IF n = 0 THEN <<>> ELSE MentionsUpTo(n - 1) \o MentionsOfWork(n)

Mentions == MentionsUpTo(Len(WorksOf(works_data)))

RECURSIVE FirstMentions(_, _)
\* The authors among the first n of the mentions m, each once, in the order
\* of their first mention.
FirstMentions(m, n) ==
    IF n = 0 THEN <<>>
    ELSE LET before == FirstMentions(m, n - 1)
         IN  IF \E k \in DOMAIN before : before[k] = m[n] THEN before
             ELSE Append(before, m[n])

\* The mentioned authors, each once, in the order of their first mention.
FirstSeenOrder == LET m == Mentions IN FirstMentions(m, Len(m))

\* The number of times author a is mentioned.
MentionCount(a) == LET m == Mentions IN Cardinality({k \in DOMAIN m : m[k] = a})

\* The authors request has been issued.
BatchRequested == RequestsTo("authors") > 0

C16_BatchHoldsMostMentioned ==
    BatchRequested =>
        \A a \in IdsOf(author_scores), b \in IdsOf(author_scores) :
            (/\ a \notin {top_ids[k] : k \in DOMAIN top_ids}
             /\ b \in {top_ids[k] : k \in DOMAIN top_ids})
            => Entry(author_scores, a).count <= Entry(author_scores, b).count

\* The part of C16 that the code keeps: an aggregate within the cap is sent whole.
SmallAggregateSentWhole ==
    (BatchRequested /\ Len(author_scores) <= AuthorCap) => top_ids = Keys(author_scores)

(***************************************************************************)
(* More vocabulary: responses that lack a key the code indexes.            *)
(***************************************************************************)
\* The institution search has answered without 'results', or with a first
\* result that lacks 'id' or 'display_name'.
MalformedInstitutionResponse ==
    /\ RequestsTo("institutions") > 0
    /\ \/ ~Has(inst_res, "results")
       \/ /\ Len(inst_res["results"]) > 0
          /\ \/ ~Has(inst_res["results"][1], "id")
             \/ ~Has(inst_res["results"][1], "display_name")

\* Authorship j of work i lists the target institution and names an author.
Qualifies(i, j) ==
    LET authorship == AuthorshipsOf(WorksOf(works_data)[i])[j]
    IN  /\ ListsInstitution(authorship, school_id)
        /\ AuthorOf(authorship) # NONE
        /\ AuthorOf(authorship) # ""

\* The works response mentions an author at the target institution for the
\* first time in an authorship whose author object lacks 'display_name'.
NamelessFirstMention ==
    LET works == WorksOf(works_data)
    IN  \E i \in DOMAIN works :
           \E j \in DOMAIN AuthorshipsOf(works[i]) :
              LET authorship == AuthorshipsOf(works[i])[j]
              IN  /\ Has(authorship, "author")
                  /\ ~Has(authorship["author"], "display_name")
                  /\ Qualifies(i, j)
                  /\ \A i2 \in DOMAIN works :
                        \A j2 \in DOMAIN AuthorshipsOf(works[i2]) :
                           (i2 < i \/ (i2 = i /\ j2 < j)) =>
                              ~(/\ Qualifies(i2, j2)
                                /\ AuthorOf(AuthorshipsOf(works[i2])[j2])
                                      = AuthorOf(authorship))

\* The aggregation loop has been run, to its end or to an exception.
AggregationRun == pc \notin {"Idle", "ResolvingInstitution", "FindingWorks", "AggregatingAuthors"}

(***************************************************************************)
(* C17.  A failure in any stage is fatal to the request.  A request that   *)
(* has failed stays failed: it takes no further step, has returned         *)
(* nothing and has not invoked save_faculty; no request is issued twice;   *)
(* and a response that lacks a key the code indexes (the institution       *)
(* response without 'results', or with a first result without 'id' or      *)
(* 'display_name'; a works response whose first mention of an author at    *)
(* the institution lacks the author's 'display_name') fails the request.   *)
(***************************************************************************)
C17_FailureIsFatal ==
    /\ pc = "Failed" =>
          /\ ~ENABLED Next
          /\ returned = <<>>
          /\ save_calls = <<>>
    /\ \A endpoint \in {"institutions", "works", "authors"} : RequestsTo(endpoint) <= 1
    /\ MalformedInstitutionResponse => pc = "Failed"
    /\ (AggregationRun /\ school_id # NONE /\ NamelessFirstMention) => pc = "Failed"

\* A request that failed in the aggregation, after two requests, on an
\* author without a display name.
C17_Witness ==
    /\ pc = "Failed"
    /\ Len(requests) = 2
    /\ NamelessFirstMention
    /\ returned = <<>>
    /\ save_calls = <<>>

(***************************************************************************)
(* More vocabulary: the stages of a request.                               *)
(***************************************************************************)
\* The stages a request may move to from a stage, in one step.
Successors(stage) ==
    CASE stage = "Idle" -> {"ResolvingInstitution"}
      [] stage = "ResolvingInstitution" -> {"FindingWorks", "TerminatedEmpty", "Failed"}
      [] stage = "FindingWorks" -> {"AggregatingAuthors", "Failed"}
      [] stage = "AggregatingAuthors" -> {"EnrichingProfiles", "TerminatedEmpty", "Failed"}
      [] stage = "EnrichingProfiles" -> {"Ranking", "Failed"}
      [] stage = "Ranking" -> {"Persisting"}
      [] stage = "Persisting" -> {"Returning"}
      [] stage = "Returning" -> {"Done"}
      [] OTHER -> {}

\* The endpoints of the requests issued so far, in order.
EndpointsRequested == [k \in DOMAIN requests |-> requests[k].endpoint]

(***************************************************************************)
(* C18.  Every request moves only forward through ResolvingInstitution,    *)
(* FindingWorks, AggregatingAuthors, EnrichingProfiles, Ranking,           *)
(* Persisting, Done: each step leads to a later stage, to the empty early  *)
(* exit or to the fatal failure; the institution, works and authors        *)
(* requests are issued at most once each and in that order; save happens   *)
(* only after ranking and before the return; and every request ends in     *)
(* Done, in an empty early exit or in a fatal failure.                     *)
(***************************************************************************)
C18_ForwardOnly ==
    /\ [][pc' \in Successors(pc)]_vars
    /\ [][save_calls' # save_calls => pc = "Persisting" /\ returned = <<>>]_vars
    /\ [](/\ EndpointsRequested =
               SubSeq(<<"institutions", "works", "authors">>, 1, Len(requests))
          /\ save_calls # <<>> => Ranked /\ save_calls = <<results>>
          /\ pc = "Done" => save_calls # <<>>
          /\ ~ENABLED Next => Ended)
    /\ <>Ended

\* A request that went through every stage and returned records.
C18_Witness ==
    /\ pc = "Done"
    /\ EndpointsRequested = <<"institutions", "works", "authors">>
    /\ save_calls = <<results>>
    /\ returned = <<results>>
    /\ Len(results) = 2

(***************************************************************************)
(* C19.  Every record in the output has an identifier that is a key of     *)
(* the author aggregate, that is, of an author with at least one           *)
(* qualifying authorship in the returned works, and its top_paper is the   *)
(* title of that aggregate entry; and if the authors response contains an  *)
(* allow-listed profile whose identifier is not in the aggregate, the      *)
(* request fails without invoking save_faculty and emits no record.        *)
(***************************************************************************)
\* The authors response lists an allow-listed profile the aggregate does not know.
KeptProfileOutsideAggregate ==
    LET kept == KeptProfiles
        aggregated == IdsOf(author_scores)
    IN  \E k \in DOMAIN kept : kept[k]["id"] \notin aggregated

C19_RecordsComeFromAggregate ==
    /\ LET aggregated == IdsOf(author_scores)
           qualifying == AuthorsListedAt(school_id)
       IN  \A rec \in OutputRecords :
              /\ rec.id \in aggregated
              /\ rec.id \in qualifying
              /\ \E k \in DOMAIN author_scores :
                    /\ author_scores[k].id = rec.id
                    /\ author_scores[k].top_paper = rec.top_paper
    /\ KeptProfileOutsideAggregate =>
          /\ pc = "Failed"
          /\ save_calls = <<>>
          /\ returned = <<>>
          /\ OutputRecords = {}

\* A request that failed on a profile outside the aggregate that the
\* response lists behind a profile of an aggregated author.
C19_Witness ==
    /\ pc = "Failed"
    /\ Len(KeptProfiles) = 2
    /\ KeptProfiles[1]["id"] \in IdsOf(author_scores)
    /\ KeptProfiles[2]["id"] \notin IdsOf(author_scores)
    /\ save_calls = <<>>

=============================================================================
